---- MODULE Spec2Model ----
(***************************************************************************)
(* Model of the Socket.IO relay of src/server/index.js (lines 54-119):     *)
(* the connection handler, its per-socket event handlers, the presence map *)
(* onlineUsers, and the two persistence calls the handlers await; and of   *)
(* the admin login route (lines 27-52), which shares no state with it.     *)
(*                                                                         *)
(* Every handler runs on Node's single thread, so the synchronous part of  *)
(* a handler is one atomic action.  An `await` of a store call is a        *)
(* suspension point: the part before it and the part after it are separate *)
(* actions, and any other event may be processed in between.               *)
(***************************************************************************)
EXTENDS Integers, Sequences, FiniteSets, TLC

\* ------------------------------------------------------------- bounds
MaxSockets == 3      \* connections that may ever be opened
MaxSends   == 2      \* send_message events emitted in a run
MaxSteps   == 6      \* handler steps in a run
MaxLogins  == 2      \* POST /auth/admin-login requests in a run

Sockets == 1..MaxSockets

\* Room ids clients name in their events.
RoomIds == {"r1", "r2"}

\* Identities clients put in join-room: two emails, and a third identity that
\* reuses the first email under another id and name.
Users == { [id |-> 1, name |-> "A", email |-> "a@x.com"],
           [id |-> 2, name |-> "B", email |-> "b@x.com"],
           [id |-> 3, name |-> "A2", email |-> "a@x.com"] }
Emails == { u.email : u \in Users }
Timestamps == {"t1", "t2"}

\* The payload of new_room_created.
NewRoom == [id |-> "r3", name |-> "Room 3", is_group |-> TRUE,
            members |-> {"a@x.com", "b@x.com"}]

NoUser == [id |-> 0, name |-> "", email |-> ""]     \* socket.data.user undefined
NoCall == [state |-> "none", email |-> "", last_seen |-> ""]

VARIABLES
  status,       \* socket -> "closed" (not yet opened) | "connected" | "disconnected"
  rooms,        \* socket -> set of room ids it is in (socket.rooms, own-id room left out)
  user,         \* socket -> socket.data.user, NoUser while undefined
  onlineUsers,  \* the Map onlineUsers: a function from a set of emails to socket ids
  handlers,     \* the send_message handler invocations, in emission order:
                \*   [id, msg, pc], pc = "await" while the insert is outstanding
  lastSeen,     \* socket -> the users.update call its disconnect handler awaits
  received,     \* socket -> the receive_message payloads delivered to it, in order
  delivered,    \* socket -> the events the last step delivered to it
  last,         \* the last step: [op, id, payload, again]; again = the step
                \*   before it was the same event of the same socket
  joinedAs,     \* email -> the sockets that ever issued join-room with it
  notified,     \* sockets whose disconnect handler emitted user_offline
  steps,        \* handler steps taken so far
  logins        \* the admin-login handler invocations, in arrival order:
                \*   [email, password, pc, select, error, userData, compare, res]

relayVars == <<status, rooms, user, onlineUsers, handlers, lastSeen, received,
               delivered, last, joinedAs, notified, steps>>

vars == <<status, rooms, user, onlineUsers, handlers, lastSeen, received,
          delivered, last, joinedAs, notified, steps, logins>>

\* ------------------------------------------------------------- helpers
\* A bug Map.set does not have: an existing key keeps its value.
MapSetIfAbsent(map, key, value) ==
  [k \in DOMAIN map \cup {key} |-> IF k \in DOMAIN map THEN map[k] ELSE value]

\* Map.set(key, value)
MapSet(map, key, value) ==
  [k \in DOMAIN map \cup {key} |-> IF k = key THEN value ELSE map[k]]

\* Map.delete(key)
MapDelete(map, key) == [k \in DOMAIN map \ {key} |-> map[k]]

isOnline(email) == email \in DOMAIN onlineUsers

\* the sockets in room roomId, given the membership rm
Members(rm, roomId) == { c \in Sockets : roomId \in rm[c] }

\* A bug io.to does not have: the room is ignored and every connected socket
\* is reached (io.emit in place of io.to(roomId).emit).
IoToEveryone(rm, roomId) == { c \in Sockets : status[c] = "connected" }

\* io.to(roomId): every socket in the room
IoTo(rm, roomId) == Members(rm, roomId)

\* A bug socket.to does not have: the emitting socket is not left out.
SocketToWithSender(rm, id, roomId) == Members(rm, roomId)

\* socket.to(roomId): every socket in the room except the emitting one
SocketTo(rm, id, roomId) == Members(rm, roomId) \ {id}

\* A bug io.emit does not have: only sockets that joined a room are reached.
IoAllJoined(st) == { c \in Sockets : st[c] = "connected" /\ rooms[c] # {} }

\* io.emit: every socket of the namespace
IoAll(st) == { c \in Sockets : st[c] = "connected" }

\* .emit(event, ...args) to the sockets of `targets`: one packet each
Emit(targets, event, args) ==
  [c \in Sockets |-> IF c \in targets
                       THEN << [event |-> event, args |-> args] >>
                       ELSE << >>]

NoEmit == [c \in Sockets |-> << >>]

Step(op, id, payload) ==
  [op |-> op, id |-> id, payload |-> payload,
   again |-> (last.op = op /\ last.id = id /\ last.payload = payload)]

\* ------------------------------------------------------------- initial state
Init ==
  /\ status = [c \in Sockets |-> "closed"]
  /\ rooms = [c \in Sockets |-> {}]
  /\ user = [c \in Sockets |-> NoUser]
  /\ onlineUsers = << >>
  /\ handlers = << >>
  /\ lastSeen = [c \in Sockets |-> NoCall]
  /\ received = [c \in Sockets |-> << >>]
  /\ delivered = NoEmit
  /\ last = [op |-> "init", id |-> 0, payload |-> << >>, again |-> FALSE]
  /\ joinedAs = [e \in Emails |-> {}]
  /\ notified = {}
  /\ steps = 0
  /\ logins = << >>

\* one more handler step, within the budget
Tick == steps < MaxSteps /\ steps' = steps + 1 /\ UNCHANGED logins

\* ------------------------------------------------------------- actions
\* io.on("connection"): a new socket, its handlers registered.  Socket ids
\* name the connections in the order they are opened.
Connection(c) ==
  /\ Tick
  /\ status[c] = "closed"
  /\ \A d \in Sockets : d < c => status[d] # "closed"
  /\ status' = [status EXCEPT ![c] = "connected"]
  /\ delivered' = NoEmit
  /\ last' = Step("connection", c, << >>)
  /\ UNCHANGED <<rooms, user, onlineUsers, handlers, lastSeen, received,
                 joinedAs, notified>>

\* A bug the handler does not have: the connection that held the email
\* before is taken out of the room, without a check that it is another one.
JoinRoomEvictsHolder(c, roomId, u) ==
  /\ Tick
  /\ status[c] = "connected"
  /\ rooms' = [d \in Sockets |->
                IF isOnline(u.email) /\ onlineUsers[u.email] = d
                  THEN rooms[d] \ {roomId}
                  ELSE IF d = c THEN rooms[d] \cup {roomId} ELSE rooms[d]]
  /\ user' = [user EXCEPT ![c] = u]
  /\ onlineUsers' = MapSet(onlineUsers, u.email, c)
  /\ delivered' = Emit(IoTo(rooms', roomId), "user_online", <<u.email>>)
  /\ last' = Step("join-room", c, [roomId |-> roomId, user |-> u])
  /\ joinedAs' = [joinedAs EXCEPT ![u.email] = @ \cup {c}]
  /\ UNCHANGED <<status, handlers, lastSeen, received, notified>>

\* socket.on("join-room", ({ roomId, user }) => ...)
JoinRoom(c, roomId, u) ==
  /\ Tick
  /\ status[c] = "connected"
  /\ rooms' = [rooms EXCEPT ![c] = @ \cup {roomId}]
  /\ user' = [user EXCEPT ![c] = u]
  /\ onlineUsers' = MapSet(onlineUsers, u.email, c)
  /\ delivered' = Emit(IoTo(rooms', roomId), "user_online", <<u.email>>)
  /\ last' = Step("join-room", c, [roomId |-> roomId, user |-> u])
  /\ joinedAs' = [joinedAs EXCEPT ![u.email] = @ \cup {c}]
  /\ UNCHANGED <<status, handlers, lastSeen, received, notified>>

\* A bug the handler does not have: a typing event of a socket that is not
\* in the room puts it in the room.
TypingJoinsRoom(c, roomId, isTyping, senderName) ==
  /\ Tick
  /\ status[c] = "connected"
  /\ rooms' = [rooms EXCEPT ![c] = @ \cup {roomId}]
  /\ delivered' = Emit(SocketTo(rooms, c, roomId), "typing",
                       << [isTyping |-> isTyping, senderName |-> senderName] >>)
  /\ last' = Step("typing", c, [roomId |-> roomId, isTyping |-> isTyping,
                                senderName |-> senderName])
  /\ UNCHANGED <<status, user, onlineUsers, handlers, lastSeen,
                 received, joinedAs, notified>>

\* socket.on("typing", ({ roomId, isTyping, senderName }) => ...)
Typing(c, roomId, isTyping, senderName) ==
  /\ Tick
  /\ status[c] = "connected"
  /\ delivered' = Emit(SocketTo(rooms, c, roomId), "typing",
                       << [isTyping |-> isTyping, senderName |-> senderName] >>)
  /\ last' = Step("typing", c, [roomId |-> roomId, isTyping |-> isTyping,
                                senderName |-> senderName])
  /\ UNCHANGED <<status, rooms, user, onlineUsers, handlers, lastSeen,
                 received, joinedAs, notified>>

\* A bug the handler does not have: a send_message waits until no insert is
\* outstanding (the store call made synchronously, or the sends queued).
SendMessageSerialised(c, roomId) ==
  /\ Tick
  /\ status[c] = "connected"
  /\ Len(handlers) < MaxSends
  /\ \A n \in DOMAIN handlers : handlers[n].pc # "await"
  /\ LET msg == [roomId |-> roomId, content |-> Len(handlers) + 1]
     IN /\ handlers' = Append(handlers, [id |-> c, msg |-> msg, pc |-> "await"])
        /\ last' = Step("send_message", c, msg)
  /\ delivered' = NoEmit
  /\ UNCHANGED <<status, rooms, user, onlineUsers, lastSeen, received,
                 joinedAs, notified>>

\* socket.on("send_message", async (msg) => ...), up to the await: the insert
\* is issued and the handler is suspended.  content numbers the messages in
\* the order they are emitted.
SendMessage(c, roomId) ==
  /\ Tick
  /\ status[c] = "connected"
  /\ Len(handlers) < MaxSends
  /\ LET msg == [roomId |-> roomId, content |-> Len(handlers) + 1]
     IN /\ handlers' = Append(handlers, [id |-> c, msg |-> msg, pc |-> "await"])
        /\ last' = Step("send_message", c, msg)
  /\ delivered' = NoEmit
  /\ UNCHANGED <<status, rooms, user, onlineUsers, lastSeen, received,
                 joinedAs, notified>>

\* io.to(roomId).emit("receive_message", msg), with the deliveries logged
Deliver(rcv, targets, msg) ==
  [c \in Sockets |-> IF c \in targets THEN Append(rcv[c], msg) ELSE rcv[c]]

\* A bug the handler does not have: socket.to in place of io.to, so the
\* sender does not get its own message.
InsertOkSkipsSender(n) ==
  /\ Tick
  /\ n \in DOMAIN handlers
  /\ handlers[n].pc = "await"
  /\ LET msg == handlers[n].msg
         to == SocketTo(rooms, handlers[n].id, msg.roomId)
     IN /\ delivered' = Emit(to, "receive_message", <<msg>>)
        /\ received' = Deliver(received, to, msg)
        /\ last' = Step("insert_ok", handlers[n].id, msg)
  /\ handlers' = [handlers EXCEPT ![n].pc = "done"]
  /\ UNCHANGED <<status, rooms, user, onlineUsers, lastSeen, joinedAs, notified>>

\* the insert resolves without error: the message goes to the room
InsertOk(n) ==
  /\ Tick
  /\ n \in DOMAIN handlers
  /\ handlers[n].pc = "await"
  /\ LET msg == handlers[n].msg
     IN /\ delivered' = Emit(IoTo(rooms, msg.roomId), "receive_message", <<msg>>)
        /\ received' = Deliver(received, IoTo(rooms, msg.roomId), msg)
        /\ last' = Step("insert_ok", handlers[n].id, msg)
  /\ handlers' = [handlers EXCEPT ![n].pc = "done"]
  /\ UNCHANGED <<status, rooms, user, onlineUsers, lastSeen, joinedAs, notified>>

\* A bug the handler does not have: the error is logged without `return`,
\* so the broadcast follows.
InsertErrorFallsThrough(n) ==
  /\ Tick
  /\ n \in DOMAIN handlers
  /\ handlers[n].pc = "await"
  /\ LET msg == handlers[n].msg
     IN /\ delivered' = Emit(IoTo(rooms, msg.roomId), "receive_message", <<msg>>)
        /\ received' = Deliver(received, IoTo(rooms, msg.roomId), msg)
        /\ last' = Step("insert_error", handlers[n].id, msg)
  /\ handlers' = [handlers EXCEPT ![n].pc = "error"]
  /\ UNCHANGED <<status, rooms, user, onlineUsers, lastSeen, joinedAs, notified>>

\* the insert resolves with { error }: logged, the handler returns
InsertError(n) ==
  /\ Tick
  /\ n \in DOMAIN handlers
  /\ handlers[n].pc = "await"
  /\ handlers' = [handlers EXCEPT ![n].pc = "error"]
  /\ delivered' = NoEmit
  /\ last' = Step("insert_error", handlers[n].id, handlers[n].msg)
  /\ UNCHANGED <<status, rooms, user, onlineUsers, lastSeen, received,
                 joinedAs, notified>>

\* the insert rejects: the catch block logs
InsertThrows(n) ==
  /\ Tick
  /\ n \in DOMAIN handlers
  /\ handlers[n].pc = "await"
  /\ handlers' = [handlers EXCEPT ![n].pc = "caught"]
  /\ delivered' = NoEmit
  /\ last' = Step("insert_throws", handlers[n].id, handlers[n].msg)
  /\ UNCHANGED <<status, rooms, user, onlineUsers, lastSeen, received,
                 joinedAs, notified>>

\* A bug the handler does not have: user_offline is emitted after the awaited
\* users.update, so nothing is emitted while the call is outstanding.
DisconnectNotifyAfterAwait(c, now) ==
  /\ Tick
  /\ status[c] = "connected"
  /\ status' = [status EXCEPT ![c] = "disconnected"]
  /\ rooms' = [rooms EXCEPT ![c] = {}]
  /\ IF user[c] # NoUser
       THEN /\ onlineUsers' = MapDelete(onlineUsers, user[c].email)
            /\ lastSeen' = [lastSeen EXCEPT ![c] =
                 [state |-> "pending", email |-> user[c].email, last_seen |-> now]]
       ELSE UNCHANGED <<onlineUsers, lastSeen>>
  /\ delivered' = NoEmit
  /\ last' = Step("disconnect", c, [lastSeen |-> now])
  /\ UNCHANGED <<user, handlers, received, joinedAs, notified>>

\* A bug the handler does not have: socket.broadcast.emit in place of
\* io.emit, so the sender is left out.
NewRoomCreatedToOthers(c, room) ==
  /\ Tick
  /\ status[c] = "connected"
  /\ delivered' = Emit(IoAll(status) \ {c}, "room_added",
                       << [id |-> room.id, name |-> room.name,
                           is_group |-> room.is_group, members |-> room.members] >>)
  /\ last' = Step("new_room_created", c, room)
  /\ UNCHANGED <<status, rooms, user, onlineUsers, handlers, lastSeen,
                 received, joinedAs, notified>>

\* socket.on("new_room_created", ({ id, name, is_group, members }) => ...)
NewRoomCreated(c, room) ==
  /\ Tick
  /\ status[c] = "connected"
  /\ delivered' = Emit(IoAll(status), "room_added",
                       << [id |-> room.id, name |-> room.name,
                           is_group |-> room.is_group, members |-> room.members] >>)
  /\ last' = Step("new_room_created", c, room)
  /\ UNCHANGED <<status, rooms, user, onlineUsers, handlers, lastSeen,
                 received, joinedAs, notified>>

\* socket.on("offer", ({ roomId, sdp }) => ...)
Offer(c, roomId, sdp) ==
  /\ Tick
  /\ status[c] = "connected"
  /\ delivered' = Emit(SocketTo(rooms, c, roomId), "offer",
                       << [from |-> c, sdp |-> sdp] >>)
  /\ last' = Step("offer", c, [roomId |-> roomId, sdp |-> sdp])
  /\ UNCHANGED <<status, rooms, user, onlineUsers, handlers, lastSeen,
                 received, joinedAs, notified>>

\* A bug the handler does not have: io.to in place of socket.to, so the
\* answer comes back to its sender.
AnswerToWholeRoom(c, roomId, sdp) ==
  /\ Tick
  /\ status[c] = "connected"
  /\ delivered' = Emit(IoTo(rooms, roomId), "answer",
                       << [from |-> c, sdp |-> sdp] >>)
  /\ last' = Step("answer", c, [roomId |-> roomId, sdp |-> sdp])
  /\ UNCHANGED <<status, rooms, user, onlineUsers, handlers, lastSeen,
                 received, joinedAs, notified>>

\* socket.on("answer", ({ roomId, sdp }) => ...)
Answer(c, roomId, sdp) ==
  /\ Tick
  /\ status[c] = "connected"
  /\ delivered' = Emit(SocketTo(rooms, c, roomId), "answer",
                       << [from |-> c, sdp |-> sdp] >>)
  /\ last' = Step("answer", c, [roomId |-> roomId, sdp |-> sdp])
  /\ UNCHANGED <<status, rooms, user, onlineUsers, handlers, lastSeen,
                 received, joinedAs, notified>>

\* socket.on("ice-candidate", ({ roomId, candidate }) => ...)
IceCandidate(c, roomId, candidate) ==
  /\ Tick
  /\ status[c] = "connected"
  /\ delivered' = Emit(SocketTo(rooms, c, roomId), "ice-candidate",
                       << [from |-> c, candidate |-> candidate] >>)
  /\ last' = Step("ice-candidate", c, [roomId |-> roomId, candidate |-> candidate])
  /\ UNCHANGED <<status, rooms, user, onlineUsers, handlers, lastSeen,
                 received, joinedAs, notified>>

\* A bug the handler does not have: no `if (user)`, so the handler runs its
\* body for a socket that never joined.
DisconnectUnguarded(c, now) ==
  /\ Tick
  /\ status[c] = "connected"
  /\ status' = [status EXCEPT ![c] = "disconnected"]
  /\ rooms' = [rooms EXCEPT ![c] = {}]
  /\ onlineUsers' = MapDelete(onlineUsers, user[c].email)
  /\ delivered' = Emit(IoAll(status'), "user_offline", <<user[c].email, now>>)
  /\ lastSeen' = [lastSeen EXCEPT ![c] =
       [state |-> "pending", email |-> user[c].email, last_seen |-> now]]
  /\ notified' = notified \cup {c}
  /\ last' = Step("disconnect", c, [lastSeen |-> now])
  /\ UNCHANGED <<user, handlers, received, joinedAs>>

\* A bug Socket.IO and the handler do not have: the socket's rooms are kept
\* when it disconnects.
DisconnectKeepsRooms(c, now) ==
  /\ Tick
  /\ status[c] = "connected"
  /\ status' = [status EXCEPT ![c] = "disconnected"]
  /\ IF user[c] # NoUser
       THEN /\ onlineUsers' = MapDelete(onlineUsers, user[c].email)
            /\ delivered' = Emit(IoAll(status'), "user_offline",
                                 <<user[c].email, now>>)
            /\ lastSeen' = [lastSeen EXCEPT ![c] =
                 [state |-> "pending", email |-> user[c].email, last_seen |-> now]]
            /\ notified' = notified \cup {c}
       ELSE /\ delivered' = NoEmit
            /\ UNCHANGED <<onlineUsers, lastSeen, notified>>
  /\ last' = Step("disconnect", c, [lastSeen |-> now])
  /\ UNCHANGED <<rooms, user, handlers, received, joinedAs>>

\* socket.on("disconnect", async () => ...), up to the await.  Socket.IO has
\* taken the socket out of every room and out of the namespace before the
\* handler runs.
Disconnect(c, now) ==
  /\ Tick
  /\ status[c] = "connected"
  /\ status' = [status EXCEPT ![c] = "disconnected"]
  /\ rooms' = [rooms EXCEPT ![c] = {}]
  /\ IF user[c] # NoUser
       THEN /\ onlineUsers' = MapDelete(onlineUsers, user[c].email)
            /\ delivered' = Emit(IoAll(status'), "user_offline",
                                 <<user[c].email, now>>)
            /\ lastSeen' = [lastSeen EXCEPT ![c] =
                 [state |-> "pending", email |-> user[c].email, last_seen |-> now]]
            /\ notified' = notified \cup {c}
       ELSE /\ delivered' = NoEmit
            /\ UNCHANGED <<onlineUsers, lastSeen, notified>>
  /\ last' = Step("disconnect", c, [lastSeen |-> now])
  /\ UNCHANGED <<user, handlers, received, joinedAs>>

\* the users.update call resolves; its result is not looked at
UpdateLastSeenDone(c, outcome) ==
  /\ Tick
  /\ lastSeen[c].state = "pending"
  /\ lastSeen' = [lastSeen EXCEPT ![c].state = outcome]
  /\ delivered' = NoEmit
  /\ last' = Step("last_seen_done", c, [outcome |-> outcome])
  /\ UNCHANGED <<status, rooms, user, onlineUsers, handlers, received,
                 joinedAs, notified>>

Next ==
  \/ \E c \in Sockets : Connection(c)
  \/ \E c \in Sockets, r \in RoomIds, u \in Users : JoinRoom(c, r, u)
  \/ \E c \in Sockets, r \in RoomIds, t \in BOOLEAN : Typing(c, r, t, "A")
  \/ \E c \in Sockets, r \in RoomIds : SendMessage(c, r)
  \/ \E n \in 1..MaxSends : InsertOk(n)
  \/ \E n \in 1..MaxSends : InsertError(n)
  \/ \E n \in 1..MaxSends : InsertThrows(n)
  \/ \E c \in Sockets : NewRoomCreated(c, NewRoom)
  \/ \E c \in Sockets, r \in RoomIds : Offer(c, r, "sdp-offer")
  \/ \E c \in Sockets, r \in RoomIds : Answer(c, r, "sdp-answer")
  \/ \E c \in Sockets, r \in RoomIds : IceCandidate(c, r, "candidate")
  \/ \E c \in Sockets, now \in Timestamps : Disconnect(c, now)
  \/ \E c \in Sockets, o \in {"ok", "error"} : UpdateLastSeenDone(c, o)

Spec == Init /\ [][Next]_vars

\* ------------------------------------------------------------- admin login
\* bcrypt: the hash of a password, and bcrypt.compare(password, hash)
Hash(password) == <<"bcrypt", password>>
Compare(password, hash) == Hash(password) = hash

\* The rows of the users table: one admin, one member.
Accounts ==
  { [id |-> 10, name |-> "Admin", email |-> "admin@x.com", role |-> "admin",
     password_hash |-> Hash("pw1")],
    [id |-> 11, name |-> "A", email |-> "a@x.com", role |-> "member",
     password_hash |-> Hash("pw2")] }

NoRow == [id |-> 0, name |-> "", email |-> "", role |-> "", password_hash |-> << >>]

\* what req.body may hold
LoginEmails == {"admin@x.com", "a@x.com", "nobody@x.com"}
Passwords == {"pw1", "pw2"}

\* supabase.from("users").select("*").eq("email", email).single(): data
Lookup(email) ==
  IF \E a \in Accounts : a.email = email
    THEN CHOOSE a \in Accounts : a.email = email
    ELSE NoRow

\* jwt.sign({ id, role }, JWT_SECRET, ...)
Sign(userData) == [id |-> userData.id, role |-> userData.role]

\* res.status(code).json(body)
Respond(code, body) == [status |-> code, body |-> body]
NoRes == Respond(0, [msg |-> ""])

\* app.post("/auth/admin-login"), up to the awaited select
AdminLogin(email, password) ==
  /\ Len(logins) < MaxLogins
  /\ logins' = Append(logins,
       [email |-> email, password |-> password, pc |-> "await_select",
        select |-> "pending", error |-> FALSE, userData |-> NoRow,
        compare |-> "none", res |-> NoRes])
  /\ UNCHANGED relayVars

\* A bug the route does not have: the role is not checked, so a member goes
\* on to the password check.
SelectResolvesNoRoleCheck(i, err) ==
  /\ i \in DOMAIN logins
  /\ logins[i].pc = "await_select"
  /\ LET data == IF err THEN NoRow ELSE Lookup(logins[i].email)
         got == [logins EXCEPT ![i].select = "resolved", ![i].error = err,
                               ![i].userData = data]
     IN logins' =
          IF err \/ data = NoRow
            THEN [got EXCEPT ![i].pc = "done",
                             ![i].res = Respond(400, [msg |-> "User not found"])]
            ELSE [got EXCEPT ![i].pc = "await_compare"]
  /\ UNCHANGED relayVars

\* the select resolves with { data, error }: lines 36-37, then bcrypt.compare
\* is called
SelectResolves(i, err) ==
  /\ i \in DOMAIN logins
  /\ logins[i].pc = "await_select"
  /\ LET data == IF err THEN NoRow ELSE Lookup(logins[i].email)
         got == [logins EXCEPT ![i].select = "resolved", ![i].error = err,
                               ![i].userData = data]
     IN logins' =
          IF err \/ data = NoRow
            THEN [got EXCEPT ![i].pc = "done",
                             ![i].res = Respond(400, [msg |-> "User not found"])]
          ELSE IF data.role # "admin"
            THEN [got EXCEPT ![i].pc = "done",
                             ![i].res = Respond(403, [msg |-> "Not an admin"])]
          ELSE [got EXCEPT ![i].pc = "await_compare"]
  /\ UNCHANGED relayVars

\* the select rejects: the catch block answers 500
SelectThrows(i) ==
  /\ i \in DOMAIN logins
  /\ logins[i].pc = "await_select"
  /\ logins' = [logins EXCEPT ![i].select = "threw", ![i].pc = "done",
                               ![i].res = Respond(500, [msg |-> "Server error"])]
  /\ UNCHANGED relayVars

\* bcrypt.compare resolves: lines 40-47
CompareResolves(i) ==
  /\ i \in DOMAIN logins
  /\ logins[i].pc = "await_compare"
  /\ LET h == logins[i]
         isMatch == Compare(h.password, h.userData.password_hash)
     IN logins' =
          IF ~isMatch
            THEN [logins EXCEPT ![i].compare = "no", ![i].pc = "done",
                    ![i].res = Respond(400, [msg |-> "Invalid credentials"])]
            ELSE [logins EXCEPT ![i].compare = "yes", ![i].pc = "done",
                    ![i].res = Respond(200,
                      [token |-> Sign(h.userData),
                       admin |-> [id |-> h.userData.id, name |-> h.userData.name,
                                  email |-> h.userData.email]])]
  /\ UNCHANGED relayVars

\* bcrypt.compare or jwt.sign throws: the catch block answers 500
CompareThrows(i) ==
  /\ i \in DOMAIN logins
  /\ logins[i].pc = "await_compare"
  /\ logins' = [logins EXCEPT ![i].compare = "threw", ![i].pc = "done",
                               ![i].res = Respond(500, [msg |-> "Server error"])]
  /\ UNCHANGED relayVars

LoginNext ==
  \/ \E e \in LoginEmails, p \in Passwords : AdminLogin(e, p)
  \/ \E i \in 1..MaxLogins, err \in BOOLEAN : SelectResolves(i, err)
  \/ \E i \in 1..MaxLogins : SelectThrows(i)
  \/ \E i \in 1..MaxLogins : CompareResolves(i)
  \/ \E i \in 1..MaxLogins : CompareThrows(i)

SpecLogin == Init /\ [][LoginNext]_vars

\* ------------------------------------------------------------- claims
\* the event the last step delivered, as one packet
Packet(event, args) == << [event |-> event, args |-> args] >>

\* the sockets that got receive_message msg, with multiplicity
Copies(c, msg) == Cardinality({ i \in DOMAIN received[c] : received[c][i] = msg })

\* C1: a disconnect removes the presence entry of an email only if that entry
\* maps to the disconnecting connection: an entry that maps to another,
\* still connected connection (one that joined later with the same email)
\* is still there after the disconnect handler's step.
C1_ReconnectRaceGuard ==
  [][\A a \in Sockets :
       (status[a] = "connected" /\ status'[a] = "disconnected") =>
         \A e \in DOMAIN onlineUsers :
           (onlineUsers[e] # a /\ status[onlineUsers[e]] = "connected") =>
             (e \in DOMAIN onlineUsers' /\ onlineUsers'[e] = onlineUsers[e])]_vars

\* C2: right after join-room(roomId, user) of connection C, the presence map
\* maps user.email to C, C is in roomId, and C's stored identity is user.
C2_JoinRoomPost ==
  last.op = "join-room" =>
    /\ isOnline(last.payload.user.email)
    /\ onlineUsers[last.payload.user.email] = last.id
    /\ last.payload.roomId \in rooms[last.id]
    /\ user[last.id] = last.payload.user

\* C2's case: a join that takes over an email another connection joined with
C2_Witness ==
  /\ last.op = "join-room"
  /\ Cardinality(joinedAs[last.payload.user.email]) >= 2
  /\ onlineUsers[last.payload.user.email] = last.id

\* C3: a send_message whose insert returned an error or threw is delivered
\* to no connection, at that step or at any later one (nor is one whose
\* insert is still outstanding).
C3_FailedInsertNeverDelivered ==
  /\ last.op \in {"insert_error", "insert_throws"} => delivered = NoEmit
  /\ \A n \in DOMAIN handlers :
       handlers[n].pc \in {"error", "caught", "await"} =>
         \A c \in Sockets : Copies(c, handlers[n].msg) = 0

\* C3's case: one insert returned an error, another threw, and the rooms
\* they were sent to have members
C3_Witness ==
  /\ \E n \in DOMAIN handlers :
       handlers[n].pc = "error" /\ Members(rooms, handlers[n].msg.roomId) # {}
  /\ \E n \in DOMAIN handlers :
       handlers[n].pc = "caught" /\ Members(rooms, handlers[n].msg.roomId) # {}

\* C4: when the insert of a send_message succeeds, receive_message with that
\* message goes exactly once to every connection then in the message's room,
\* the sender included, and to no other connection; no connection ever has
\* two copies of one message.
C4_ReceiveMessageToRoom ==
  /\ last.op = "insert_ok" =>
       \A c \in Sockets :
         /\ delivered[c] = IF last.payload.roomId \in rooms[c]
                             THEN Packet("receive_message", <<last.payload>>)
                             ELSE << >>
         /\ Copies(c, last.payload) =
              (IF last.payload.roomId \in rooms[c] THEN 1 ELSE 0)
  /\ \A n \in DOMAIN handlers, c \in Sockets : Copies(c, handlers[n].msg) <= 1

\* C4's case: the sender is in the room and gets the message, and a connection
\* that is in another room gets nothing
C4_Witness ==
  /\ last.op = "insert_ok"
  /\ last.payload.roomId \in rooms[last.id]
  /\ delivered[last.id] # << >>
  /\ \E c \in Sockets :
       /\ status[c] = "connected"
       /\ rooms[c] # {}
       /\ last.payload.roomId \notin rooms[c]
       /\ delivered[c] = << >>

\* C5: a typing event of connection X for roomId goes exactly once, as
\* typing {isTyping, senderName}, to every connection in roomId other than X,
\* and neither to X nor to a connection outside roomId.
C5_TypingToOthersInRoom ==
  last.op = "typing" =>
    \A c \in Sockets :
      delivered[c] =
        IF c # last.id /\ last.payload.roomId \in rooms[c]
          THEN Packet("typing", << [isTyping |-> last.payload.isTyping,
                                    senderName |-> last.payload.senderName] >>)
          ELSE << >>

\* C5's case: X is in the room, another member gets the event, and a
\* connected connection outside the room gets nothing
C5_Witness ==
  /\ last.op = "typing"
  /\ last.payload.roomId \in rooms[last.id]
  /\ \E y \in Sockets \ {last.id} : delivered[y] # << >>
  /\ \E z \in Sockets \ {last.id} :
       /\ status[z] = "connected"
       /\ last.payload.roomId \notin rooms[z]
       /\ delivered[z] = << >>

\* C6: after the disconnect of a connection X, an email that X joined with,
\* and that no other connection ever joined with, is not online.
C6_SoleJoinerOffline ==
  last.op = "disconnect" =>
    \A e \in Emails : joinedAs[e] = {last.id} => ~isOnline(e)

\* C7: when a connection with a stored identity disconnects, user_offline
\* with its email and the timestamp goes exactly once to every connection
\* still connected, whatever rooms it is in, and to no other.
C7_UserOfflineToAll ==
  (last.op = "disconnect" /\ user[last.id] # NoUser) =>
    \A c \in Sockets :
      delivered[c] =
        IF status[c] = "connected"
          THEN Packet("user_offline",
                      <<user[last.id].email, last.payload.lastSeen>>)
          ELSE << >>

\* C7's case: among the connections left, one has joined no room and one
\* is in a room; both get user_offline
C7_Witness ==
  /\ last.op = "disconnect"
  /\ user[last.id] # NoUser
  /\ \E c \in Sockets :
       status[c] = "connected" /\ rooms[c] = {} /\ delivered[c] # << >>
  /\ \E c \in Sockets :
       status[c] = "connected" /\ rooms[c] # {} /\ delivered[c] # << >>

\* C8: two messages one connection emitted to one room reach every
\* connection that gets both in the order they were emitted.
C8_PerConnectionFifo ==
  \A c \in Sockets :
    \A i, j \in DOMAIN received[c] :
      ( /\ i < j
        /\ received[c][i].roomId = received[c][j].roomId
        /\ handlers[received[c][i].content].id = handlers[received[c][j].content].id )
      => received[c][i].content < received[c][j].content

\* C9: every entry of onlineUsers maps to a connection that is connected.
C9_PresenceRefersToConnected ==
  \A e \in DOMAIN onlineUsers : status[onlineUsers[e]] = "connected"

\* C10: user_offline has been broadcast as soon as the disconnect handler of
\* a joined connection has issued its users.update call, while the call is
\* still outstanding; so it has been broadcast whether the call then
\* succeeds, returns an error or never completes, and the completion of the
\* call emits nothing.
C10_OfflineBeforeLastSeenOutcome ==
  /\ \A c \in Sockets :
       (status[c] = "disconnected" /\ user[c] # NoUser) =>
         (c \in notified /\ lastSeen[c].state \in {"pending", "ok", "error"})
  /\ (last.op = "disconnect" /\ user[last.id] # NoUser) =>
       /\ lastSeen[last.id].state = "pending"
       /\ \A c \in Sockets :
            status[c] = "connected" => delivered[c] # << >>
  /\ last.op = "last_seen_done" => delivered = NoEmit

\* C10's case: the users.update call of a joined connection has just returned
\* an error, its user_offline went out before that, and a connection that
\* got it is still connected
C10_Witness ==
  /\ last.op = "last_seen_done"
  /\ lastSeen[last.id].state = "error"
  /\ last.id \in notified
  /\ \E c \in Sockets : status[c] = "connected"

\* C11: an outstanding insert of a send_message blocks nothing: while it is
\* pending, every other connected connection's join-room, typing, offer,
\* answer, ice-candidate, new_room_created, disconnect and send_message can
\* be processed, and so can the completion of any other outstanding insert
\* (so broadcasts need not come in the order the sends arrived).
C11_PendingInsertBlocksNothing ==
  \A n \in DOMAIN handlers :
    (handlers[n].pc = "await" /\ steps < MaxSteps) =>
      /\ \A c \in Sockets \ {handlers[n].id} :
           status[c] = "connected" =>
             /\ \A r \in RoomIds :
                  /\ \A u \in Users : ENABLED JoinRoom(c, r, u)
                  /\ ENABLED Typing(c, r, TRUE, "A")
                  /\ ENABLED Offer(c, r, "sdp-offer")
                  /\ ENABLED Answer(c, r, "sdp-answer")
                  /\ ENABLED IceCandidate(c, r, "candidate")
                  /\ Len(handlers) < MaxSends => ENABLED SendMessage(c, r)
             /\ ENABLED NewRoomCreated(c, NewRoom)
             /\ \A now \in Timestamps : ENABLED Disconnect(c, now)
      /\ \A m \in DOMAIN handlers :
           handlers[m].pc = "await" => ENABLED InsertOk(m)

\* C11's case: the send_message that arrived first is still pending, and the
\* one another connection emitted after it has been broadcast to a member
C11_Witness ==
  \E n, m \in DOMAIN handlers :
    /\ n < m
    /\ handlers[n].id # handlers[m].id
    /\ handlers[n].pc = "await"
    /\ handlers[m].pc = "done"
    /\ handlers[n].msg.roomId = handlers[m].msg.roomId
    /\ \E c \in Sockets : Copies(c, handlers[m].msg) = 1

\* the body an offer, answer or ice-candidate is forwarded with
Forwarded(op, from, payload) ==
  IF op = "ice-candidate"
    THEN [from |-> from, candidate |-> payload.candidate]
    ELSE [from |-> from, sdp |-> payload.sdp]

\* C12: an offer, answer or ice-candidate of connection X for roomId goes,
\* under the same event name and with from = X's id, exactly once to every
\* connection in roomId other than X, and to no other connection.
C12_SignalingRelay ==
  last.op \in {"offer", "answer", "ice-candidate"} =>
    \A c \in Sockets :
      delivered[c] =
        IF c # last.id /\ last.payload.roomId \in rooms[c]
          THEN Packet(last.op, << Forwarded(last.op, last.id, last.payload) >>)
          ELSE << >>

\* C12's case: X is in the room, another member gets the event with from = X,
\* and a connected connection outside the room gets nothing
C12_Witness ==
  /\ last.op \in {"offer", "answer", "ice-candidate"}
  /\ last.payload.roomId \in rooms[last.id]
  /\ \E y \in Sockets \ {last.id} :
       /\ delivered[y] # << >>
       /\ delivered[y][1].args[1].from = last.id
  /\ \E z \in Sockets \ {last.id} :
       /\ status[z] = "connected"
       /\ last.payload.roomId \notin rooms[z]
       /\ delivered[z] = << >>

\* C13: a join-room(roomId, user) delivers user_online with user.email
\* exactly once to every connection that is in roomId after the join, the
\* joining one included, and to no connection outside roomId.
C13_UserOnlineToRoom ==
  last.op = "join-room" =>
    \A c \in Sockets :
      delivered[c] =
        IF last.payload.roomId \in rooms[c]
          THEN Packet("user_online", <<last.payload.user.email>>)
          ELSE << >>

\* C13's case: the joiner and an earlier member get user_online, and a
\* connected connection outside the room gets nothing
C13_Witness ==
  /\ last.op = "join-room"
  /\ delivered[last.id] # << >>
  /\ \E y \in Sockets \ {last.id} : delivered[y] # << >>
  /\ \E z \in Sockets :
       /\ status[z] = "connected"
       /\ last.payload.roomId \notin rooms[z]
       /\ delivered[z] = << >>

\* C14: a new_room_created of any connection, joined or not, delivers
\* room_added {id, name, is_group, members} exactly once to every connected
\* connection, the sender and the connections in no room included.
C14_RoomAddedToAll ==
  last.op = "new_room_created" =>
    \A c \in Sockets :
      delivered[c] =
        IF status[c] = "connected"
          THEN Packet("room_added",
                      << [id |-> last.payload.id, name |-> last.payload.name,
                          is_group |-> last.payload.is_group,
                          members |-> last.payload.members] >>)
          ELSE << >>

\* C14's case: the sender has joined no room and gets room_added, as do a
\* connection in a room and one in no room; a disconnected one gets nothing
C14_Witness ==
  /\ last.op = "new_room_created"
  /\ user[last.id] = NoUser
  /\ delivered[last.id] # << >>
  /\ \E y \in Sockets \ {last.id} : rooms[y] # {} /\ delivered[y] # << >>
  /\ \E z \in Sockets : status[z] = "disconnected" /\ delivered[z] = << >>

\* the handler steps that are neither a join-room nor a disconnect
Relays == {"typing", "new_room_created", "offer", "answer", "ice-candidate",
           "send_message", "insert_ok", "insert_error", "insert_throws"}

\* C15: the typing, new_room_created, offer, answer and ice-candidate
\* handlers, and send_message before and after its awaited insert, leave the
\* presence map, every connection's rooms and every connection's stored
\* identity as they were.
C15_OnlyJoinAndDisconnectMutate ==
  [][last'.op \in Relays => UNCHANGED <<onlineUsers, rooms, user>>]_vars

\* C15's case: a message is broadcast after its insert while the presence
\* map, a room and a stored identity are not empty
C15_Witness ==
  /\ last.op = "insert_ok"
  /\ onlineUsers # << >>
  /\ \E c \in Sockets : rooms[c] # {} /\ user[c] # NoUser /\ delivered[c] # << >>

\* C16: the disconnect of a connection that never issued join-room leaves the
\* presence map as it was, delivers user_offline to nobody and issues no
\* users.update call.
C16_UnjoinedDisconnectSilent ==
  [][\A c \in Sockets :
       (status[c] = "connected" /\ status'[c] = "disconnected" /\ user[c] = NoUser) =>
         /\ onlineUsers' = onlineUsers
         /\ delivered' = NoEmit
         /\ lastSeen' = lastSeen
         /\ notified' = notified]_vars

\* C16's case: a connection without identity has disconnected while another
\* connection is connected and online
C16_Witness ==
  /\ last.op = "disconnect"
  /\ user[last.id] = NoUser
  /\ lastSeen[last.id] = NoCall
  /\ \E c \in Sockets :
       /\ status[c] = "connected"
       /\ isOnline(user[c].email)
       /\ delivered[c] = << >>

\* C17: a disconnected connection stays disconnected, is in no room, and
\* gets no delivery, neither at its disconnect (its own user_offline) nor at
\* any later step (a receive_message whose insert resolves afterwards).
C17_DisconnectedIsTerminal ==
  [][\A c \in Sockets :
       /\ status[c] = "disconnected" => status'[c] = "disconnected"
       /\ status'[c] = "disconnected" =>
            (rooms'[c] = {} /\ delivered'[c] = << >> /\ received'[c] = received[c])]_vars

\* C17's case: the insert of a message resolves after its sender, which had
\* joined a room, has disconnected (its user_offline went to the others);
\* the broadcast does not reach it
C17_Witness ==
  /\ last.op = "insert_ok"
  /\ status[last.id] = "disconnected"
  /\ last.id \in notified
  /\ rooms[last.id] = {}
  /\ delivered[last.id] = << >>
  /\ received[last.id] = << >>

\* C18: a join-room(roomId, user) issued by a connection right after the
\* same join-room leaves its rooms, the stored identities and the presence
\* map as the first one left them.
C18_JoinRoomIdempotent ==
  [][(last'.op = "join-room" /\ last'.again) =>
       UNCHANGED <<rooms, user, onlineUsers>>]_vars

\* C18's case: the same join-room twice in a row, in a room with another
\* member; the connection is in the room and gets one user_online
C18_Witness ==
  /\ last.op = "join-room"
  /\ last.again
  /\ last.payload.roomId \in rooms[last.id]
  /\ Len(delivered[last.id]) = 1
  /\ \E y \in Sockets \ {last.id} : last.payload.roomId \in rooms[y]

\* whether a response carries a token
HasToken(res) == "token" \in DOMAIN res.body

\* C19: an admin login answers with a token only when the select returned a
\* row without error, the row's role is admin and the password matches the
\* row's hash, and then it always does, with status 200; a store error or a
\* missing row answers 400, a role other than admin 403 without the password
\* being compared, a wrong password 400, an exception 500, none with a token.
C19_AdminLoginOutcomes ==
  \A i \in DOMAIN logins :
    LET h == logins[i]
        row == Lookup(h.email)
        found == h.select = "resolved" /\ ~h.error /\ row # NoRow
        admin == found /\ row.role = "admin"
    IN h.pc = "done" =>
         /\ HasToken(h.res) <=>
              (admin /\ h.compare # "threw" /\ Compare(h.password, row.password_hash))
         /\ HasToken(h.res) =>
              (h.res.status = 200 /\ h.res.body.token = [id |-> row.id, role |-> "admin"])
         /\ h.res.status # 200 => ~HasToken(h.res)
         /\ (h.select = "resolved" /\ ~found) => h.res.status = 400
         /\ (found /\ ~admin) => (h.res.status = 403 /\ h.compare = "none")
         /\ (admin /\ h.compare # "threw" /\ ~Compare(h.password, row.password_hash))
              => h.res.status = 400
         /\ (h.select = "threw" \/ h.compare = "threw") => h.res.status = 500
         /\ h.res.status \in {200, 400, 403, 500}

\* C19's case: the admin got a token with the right password, and a member
\* with the right password of its own account got 403
C19_Witness ==
  /\ \E i \in DOMAIN logins :
       logins[i].pc = "done" /\ HasToken(logins[i].res)
  /\ \E i \in DOMAIN logins :
       /\ logins[i].pc = "done"
       /\ logins[i].res.status = 403
       /\ Compare(logins[i].password, Lookup(logins[i].email).password_hash)
====
